---- MODULE Spec2Model ----
(***************************************************************************)
(* A model of the three command-line programs of rust-fundamentals:        *)
(*   calculate-area       (shapes, Area::area, total_area, main)           *)
(*   while-input          (the read-until-"stop" loop)                     *)
(*   file-size-formatter  (FileSize::from_input and its caller main)       *)
(* Each program has its own specification (SpecArea, SpecInput, SpecFile); *)
(* the variables of the programs that are not running keep their initial   *)
(* values.                                                                 *)
(*                                                                         *)
(* f64 values are modelled in fixed point: a finite value is an integer    *)
(* count of 1/Scale units, and NaN is a separate value.  Strings are       *)
(* sequences of one-character strings.                                     *)
(***************************************************************************)
EXTENDS Integers, Sequences, FiniteSets, TLC

VARIABLES
    \* calculate-area
    shapes,        \* the vec of shapes built by main
    apc,           \* position of main: "collect", "match", "done"
    idx,           \* next element shapes.iter() yields (1-based)
    areas,         \* the Vec<f64> collect() has gathered so far
    residual,      \* the first Err collect() met, or NoErr
    calls,         \* indices of the shapes area() was invoked on, in order
    total_area,    \* the Result of lines 59-66, Unset before it is computed
    stdout,        \* lines printed with println!
    stderr,        \* lines printed with eprintln! (and panic messages)
    \* while-input
    stdin,         \* the characters of standard input not yet consumed
    input,         \* the String buffer `input`
    wpc,           \* position of main: "test","prompt","read","echo","exit","done","panicked"
    lastOut,       \* the last line written to standard output
    nStopping,     \* how many times "Stopping..." was printed
    \* file-size-formatter
    arg,           \* std::env::args().nth(1)
    fpc,           \* position of main: "start", "parsed", "done"
    file_size      \* the Option<FileSize> from_input returned

vars == <<shapes, apc, idx, areas, residual, calls, total_area, stdout, stderr,
          stdin, input, wpc, lastOut, nStopping, arg, fpc, file_size>>

areaVars == <<shapes, apc, idx, areas, residual, calls, total_area>>
inputVars == <<stdin, input, wpc, lastOut, nStopping>>
fileVars == <<arg, fpc, file_size>>

(***************************************************************************)
(* Bounds of the model.                                                    *)
(***************************************************************************)
MaxLen == 3        \* longest shape sequence explored
MaxMeasure == 2    \* largest radius / length explored beside main's own list

(***************************************************************************)
(* f64 in fixed point.                                                     *)
(***************************************************************************)
Scale == 100000
PiScaled == 314159

NaN == [nan |-> TRUE, v |-> 0]
Num(n) == [nan |-> FALSE, v |-> n]

\* `x > 0.0` on f64: false for NaN
GtZero(x) == ~x.nan /\ x.v > 0
\* `x <= 0.0` on f64: false for NaN
LeZero(x) == ~x.nan /\ x.v <= 0

Ok(v) == [tag |-> "Ok", val |-> v]
Err(e) == [tag |-> "Err", err |-> e]
Unset == [tag |-> "Unset"]
NoErr == [tag |-> "NoErr"]

(***************************************************************************)
(* calculate-area                                                          *)
(***************************************************************************)
Circle(r) == [kind |-> "Circle", radius |-> r]
Square(l) == [kind |-> "Square", length |-> l]

\* CircleArea with `>=` for `>`: a radius of zero is accepted
CircleAreaZeroOk(c) ==
    IF ~c.radius.nan /\ c.radius.v >= 0
    THEN Ok(PiScaled * c.radius.v * c.radius.v)
    ELSE Err("Invalid radius size")

\* impl Area for Circle; the value is in 1/Scale units
CircleArea(c) ==
    IF GtZero(c.radius)
    THEN Ok(PiScaled * c.radius.v * c.radius.v)
    ELSE Err("Invalid radius size")

\* SquareArea without the powi(2)
SquareAreaNotSquared(s) ==
    IF GtZero(s.length)
    THEN Ok(Scale * s.length.v)
    ELSE Err("Invalid length size")

\* impl Area for Square
SquareArea(s) ==
    IF GtZero(s.length)
    THEN Ok(Scale * s.length.v * s.length.v)
    ELSE Err("Invalid length size")

\* the closure of lines 61-64: dispatch on the variant
ShapeArea(shape) ==
    IF shape.kind = "Circle" THEN CircleArea(shape) ELSE SquareArea(shape)

\* a sum that leaves out the first element
RECURSIVE SumSkipFirst(_)
SumSkipFirst(s) ==
    IF Len(s) <= 1 THEN 0 ELSE s[Len(s)] + SumSkipFirst(SubSeq(s, 1, Len(s) - 1))

\* areas.iter().sum()
RECURSIVE Sum(_)
Sum(s) == IF s = <<>> THEN 0 ELSE Head(s) + Sum(Tail(s))

\* {:.2} of a value in 1/Scale units: the value in hundredths, rounded
Format2(v) == (v * 100 + Scale \div 2) \div Scale

Measures == { Num(n) : n \in (0 - 1)..MaxMeasure } \cup { NaN }
ShapeSet == { Circle(m) : m \in Measures } \cup { Square(m) : m \in Measures }

\* the vec! of lines 45-49
MainShapes == << Circle(Num(5)), Square(Num(3)), Circle(Num(2)) >>

ShapeSeqs == UNION { [1..n -> ShapeSet] : n \in 0..MaxLen }

IdleInput ==
    /\ stdin = <<>> /\ input = <<>> /\ wpc = "idle"
    /\ lastOut = <<>> /\ nStopping = 0
IdleFile ==
    /\ arg = [some |-> FALSE] /\ fpc = "idle" /\ file_size = [tag |-> "Unset"]
IdleArea ==
    /\ shapes = <<>> /\ apc = "idle" /\ idx = 1 /\ areas = <<>>
    /\ residual = NoErr /\ calls = <<>> /\ total_area = Unset

InitArea ==
    /\ shapes \in ShapeSeqs \cup { MainShapes }
    /\ apc = "collect"
    /\ idx = 1
    /\ areas = <<>>
    /\ residual = NoErr
    /\ calls = <<>>
    /\ total_area = Unset
    /\ stdout = <<>>
    /\ stderr = <<>>
    /\ IdleInput
    /\ IdleFile

\* IterNext evaluating every shape (no short circuit), keeping the first Err
IterNextEager ==
    /\ apc = "collect"
    /\ idx <= Len(shapes)
    /\ calls' = Append(calls, idx)
    /\ LET r == ShapeArea(shapes[idx]) IN
         IF r.tag = "Ok"
         THEN /\ areas' = Append(areas, r.val)
              /\ residual' = residual
         ELSE /\ residual' = IF residual = NoErr THEN r ELSE residual
              /\ areas' = areas
    /\ idx' = idx + 1
    /\ UNCHANGED <<shapes, apc, total_area, stdout, stderr, inputVars, fileVars>>

\* IterNext evaluating every shape and keeping the last Err
IterNextLastErr ==
    /\ apc = "collect"
    /\ idx <= Len(shapes)
    /\ calls' = Append(calls, idx)
    /\ LET r == ShapeArea(shapes[idx]) IN
         IF r.tag = "Ok"
         THEN /\ areas' = Append(areas, r.val)
              /\ residual' = residual
         ELSE /\ residual' = r
              /\ areas' = areas
    /\ idx' = idx + 1
    /\ UNCHANGED <<shapes, apc, total_area, stdout, stderr, inputVars, fileVars>>

\* One pull of collect::<Result<Vec<_>,_>>() on the mapped iterator: the
\* closure runs on the next shape; an Ok is pushed, an Err is kept as the
\* residual and ends the iteration.
IterNext ==
    /\ apc = "collect"
    /\ residual = NoErr
    /\ idx <= Len(shapes)
    /\ calls' = Append(calls, idx)
    /\ LET r == ShapeArea(shapes[idx]) IN
         IF r.tag = "Ok"
         THEN /\ areas' = Append(areas, r.val)
              /\ idx' = idx + 1
              /\ residual' = residual
         ELSE /\ residual' = r
              /\ UNCHANGED <<areas, idx>>
    /\ UNCHANGED <<shapes, apc, total_area, stdout, stderr, inputVars, fileVars>>

\* Collected with a sum that drops an element, and with an empty vector
\* taken for a failure
CollectedSkipFirst == IF residual = NoErr THEN Ok(SumSkipFirst(areas)) ELSE residual
CollectedEmptyFails ==
    IF residual # NoErr THEN residual
    ELSE IF areas = <<>> THEN Err("No shapes") ELSE Ok(Sum(areas))

\* collect() returns (the iterator is exhausted or an Err was met) and
\* .map(|areas| areas.iter().sum()) turns an Ok vector into its sum.
Collected == IF residual = NoErr THEN Ok(Sum(areas)) ELSE residual

CollectDone ==
    /\ apc = "collect"
    /\ residual # NoErr \/ idx > Len(shapes)
    /\ total_area' = Collected
    /\ apc' = "match"
    /\ UNCHANGED <<shapes, idx, areas, residual, calls, stdout, stderr,
                   inputVars, fileVars>>

\* the two lines main can print
OkLine(area) == <<"Total area: ", Format2(area), " sq. units">>
ErrLine(e) == <<"Error calculating area: ", e>>

\* MatchPrint writing to both streams
MatchPrintBoth ==
    /\ apc = "match"
    /\ stdout' = Append(stdout, OkLine(0))
    /\ stderr' = Append(stderr, ErrLine(""))
    /\ apc' = "done"
    /\ UNCHANGED <<shapes, idx, areas, residual, calls, total_area,
                   inputVars, fileVars>>

\* the match of lines 68-71
MatchPrint ==
    /\ apc = "match"
    /\ IF total_area.tag = "Ok"
       THEN /\ stdout' = Append(stdout, OkLine(total_area.val))
            /\ stderr' = stderr
       ELSE /\ stderr' = Append(stderr, ErrLine(total_area.err))
            /\ stdout' = stdout
    /\ apc' = "done"
    /\ UNCHANGED <<shapes, idx, areas, residual, calls, total_area,
                   inputVars, fileVars>>

NextArea == IterNext \/ CollectDone \/ MatchPrint

SpecArea == InitArea /\ [][NextArea]_vars /\ WF_vars(NextArea)

(***************************************************************************)
(* Strings: sequences of one-character strings.                            *)
(***************************************************************************)
\* char::is_whitespace, on the characters the model uses
IsWhitespace(c) == c \in {" ", "\t", "\n", "\r"}

RECURSIVE TrimStart(_)
TrimStart(s) ==
    IF s # <<>> /\ IsWhitespace(Head(s)) THEN TrimStart(Tail(s)) ELSE s

RECURSIVE TrimEnd(_)
TrimEnd(s) ==
    IF s # <<>> /\ IsWhitespace(s[Len(s)])
    THEN TrimEnd(SubSeq(s, 1, Len(s) - 1))
    ELSE s

\* a comparison of the untrimmed line
TrimNone(s) == s

\* str::trim

Trim(s) == TrimEnd(TrimStart(s))

(***************************************************************************)
(* while-input                                                             *)
(***************************************************************************)
MaxLines == 2      \* most chunks of input standard input holds

STOP == <<"s", "t", "o", "p">>
\* stands for a byte sequence that is not valid UTF-8
BadByte == "<0xFF>"

Chunks ==
    { <<"s", "t", "o", "p", "\n">>,
      <<" ", "s", "t", "o", "p", "\t", "\r", "\n">>,
      <<"s", "t", "o", "p">>,
      <<"s", "t", "o", "p", "x", "\n">>,
      <<"s", "t", " ", "o", "p", "\n">>,
      <<"S", "T", "O", "P", "\n">>,
      <<"g", "o", "\n">>,
      <<"\n">>,
      <<BadByte, "\n">> }

RECURSIVE Concat(_)
Concat(ss) == IF ss = <<>> THEN <<>> ELSE Head(ss) \o Concat(Tail(ss))

StdinContents == { Concat(cs) : cs \in UNION { [1..n -> Chunks] : n \in 0..MaxLines } }

InitInput ==
    /\ stdin \in StdinContents
    /\ input = <<>>
    /\ wpc = "test"
    /\ lastOut = <<>>
    /\ nStopping = 0
    /\ stdout = <<>>
    /\ stderr = <<>>
    /\ IdleArea
    /\ IdleFile

\* WhileTest leaving the loop on an empty line too (end of input)
WhileTestEofExits ==
    /\ wpc = "test"
    /\ wpc' = IF Trim(input) # STOP /\ ~(input = <<>> /\ lastOut # <<>>)
              THEN "prompt" ELSE "exit"
    /\ UNCHANGED <<stdin, input, lastOut, nStopping, stdout, stderr, areaVars, fileVars>>

\* while input.trim() != "stop"
WhileTest ==
    /\ wpc = "test"
    /\ wpc' = IF Trim(input) # STOP THEN "prompt" ELSE "exit"
    /\ UNCHANGED <<stdin, input, lastOut, nStopping, stdout, stderr, areaVars, fileVars>>

\* println!("Please type something: "); input.clear();
Prompt ==
    /\ wpc = "prompt"
    /\ lastOut' = <<"Please type something: ">>
    /\ input' = <<>>
    /\ wpc' = "read"
    /\ UNCHANGED <<stdin, nStopping, stdout, stderr, areaVars, fileVars>>

\* the bytes read_line takes: through the first "\n", or all that is left
LineEnd(s) ==
    IF \E i \in 1..Len(s) : s[i] = "\n"
    THEN CHOOSE i \in 1..Len(s) : s[i] = "\n" /\ \A j \in 1..(i - 1) : s[j] # "\n"
    ELSE Len(s)

\* io::stdin().read_line(&mut input).expect("Failed to read line"):
\* at end of input Ok(0) and nothing appended; bytes that are not UTF-8 give
\* an Err, the buffer is left as it was, and expect panics.
ReadLine ==
    /\ wpc = "read"
    /\ LET n == LineEnd(stdin)
           line == SubSeq(stdin, 1, n)
       IN /\ stdin' = SubSeq(stdin, n + 1, Len(stdin))
          /\ IF \E i \in 1..n : line[i] = BadByte
             THEN /\ input' = input
                  /\ stderr' = Append(stderr, <<"Failed to read line">>)
                  /\ wpc' = "panicked"
             ELSE /\ input' = input \o line
                  /\ stderr' = stderr
                  /\ wpc' = "echo"
    /\ UNCHANGED <<lastOut, nStopping, stdout, areaVars, fileVars>>

\* println!("You typed: {}", input);
Echo ==
    /\ wpc = "echo"
    /\ lastOut' = <<"You typed: ", input>>
    /\ wpc' = "test"
    /\ UNCHANGED <<stdin, input, nStopping, stdout, stderr, areaVars, fileVars>>

\* println!("Stopping..."); and main returns
Stopping ==
    /\ wpc = "exit"
    /\ lastOut' = <<"Stopping...">>
    /\ nStopping' = nStopping + 1
    /\ wpc' = "done"
    /\ UNCHANGED <<stdin, input, stdout, stderr, areaVars, fileVars>>

NextInput == WhileTest \/ Prompt \/ ReadLine \/ Echo \/ Stopping

SpecInput == InitInput /\ [][NextInput]_vars /\ WF_vars(NextInput)

(***************************************************************************)
(* file-size-formatter                                                     *)
(***************************************************************************)
MaxTokens == 3     \* most whitespace-separated tokens in the argument

\* str::split_whitespace: the maximal runs of non-whitespace characters
RECURSIVE SplitFrom(_, _, _)
SplitFrom(s, cur, acc) ==
    IF s = <<>>
    THEN IF cur = <<>> THEN acc ELSE Append(acc, cur)
    ELSE IF IsWhitespace(Head(s))
         THEN SplitFrom(Tail(s), <<>>, IF cur = <<>> THEN acc ELSE Append(acc, cur))
         ELSE SplitFrom(Tail(s), Append(cur, Head(s)), acc)

SplitWhitespace(s) == SplitFrom(s, <<>>, <<>>)

UpperChars == <<"A", "B", "C", "D", "E", "F", "G", "H", "I", "J", "K", "L", "M",
                "N", "O", "P", "Q", "R", "S", "T", "U", "V", "W", "X", "Y", "Z">>
LowerChars == <<"a", "b", "c", "d", "e", "f", "g", "h", "i", "j", "k", "l", "m",
                "n", "o", "p", "q", "r", "s", "t", "u", "v", "w", "x", "y", "z">>

LowerChar(c) ==
    IF \E i \in 1..Len(UpperChars) : UpperChars[i] = c
    THEN LowerChars[CHOOSE i \in 1..Len(UpperChars) : UpperChars[i] = c]
    ELSE c

\* a case-sensitive unit
ToLowercaseNone(s) == s

\* str::to_lowercase

ToLowercase(s) == [i \in 1..Len(s) |-> LowerChar(s[i])]

\* A parsed f64: NaN, an infinity, or a finite value of mant/FracScale with
\* its sign bit (so that -0.0 is a value of its own).
FracScale == 100
FNaN == [kind |-> "nan", neg |-> FALSE, mant |-> 0]
FInf(neg) == [kind |-> "inf", neg |-> neg, mant |-> 0]
FNum(neg, mant) == [kind |-> "num", neg |-> neg, mant |-> mant]

DigitChars == <<"0", "1", "2", "3", "4", "5", "6", "7", "8", "9">>
IsDigit(c) == \E i \in 1..Len(DigitChars) : DigitChars[i] = c
DigitVal(c) == (CHOOSE i \in 1..Len(DigitChars) : DigitChars[i] = c) - 1

RECURSIVE DecVal(_)
DecVal(ds) ==
    IF ds = <<>> THEN 0 ELSE DecVal(SubSeq(ds, 1, Len(ds) - 1)) * 10 + DigitVal(ds[Len(ds)])

\* the fraction digits as a count of 1/FracScale (two digits are kept)
FracVal(ds) ==
    (IF Len(ds) >= 1 THEN DigitVal(ds[1]) * 10 ELSE 0)
    + (IF Len(ds) >= 2 THEN DigitVal(ds[2]) ELSE 0)

\* <f64 as FromStr>::from_str for tokens without an exponent: an optional
\* sign, then "inf", "infinity" or "nan" in any case, or digits with at most
\* one "." and at least one digit.
ParseF64(tok) ==
    LET signed == tok # <<>> /\ Head(tok) \in {"+", "-"}
        neg == signed /\ Head(tok) = "-"
        body == IF signed THEN Tail(tok) ELSE tok
        low == ToLowercase(body)
        dots == { i \in 1..Len(body) : body[i] = "." }
        dot == IF dots = {} THEN Len(body) + 1 ELSE CHOOSE i \in dots : TRUE
        ip == SubSeq(body, 1, dot - 1)
        fp == SubSeq(body, dot + 1, Len(body))
    IN  IF low = <<"n", "a", "n">> THEN Ok(FNaN)
        ELSE IF low = <<"i", "n", "f">> \/ low = <<"i", "n", "f", "i", "n", "i", "t", "y">>
        THEN Ok(FInf(neg))
        ELSE IF /\ Cardinality(dots) <= 1
                /\ \A i \in 1..Len(body) : i \in dots \/ IsDigit(body[i])
                /\ Len(ip) + Len(fp) >= 1
        THEN Ok(FNum(neg, DecVal(ip) * FracScale + FracVal(fp)))
        ELSE Err("invalid float literal")

\* `size < 0.0`: false for NaN and for -0.0
LtZero(x) == (x.kind = "num" /\ x.neg /\ x.mant > 0) \/ (x.kind = "inf" /\ x.neg)

\* `size as u64`: the fraction is dropped, NaN is 0, a negative value is 0 and
\* +infinity saturates to u64::MAX (sat)
AsU64(x) ==
    IF x.kind = "num" /\ ~x.neg
    THEN [sat |-> FALSE, n |-> x.mant \div FracScale]
    ELSE [sat |-> x.kind = "inf" /\ ~x.neg, n |-> 0]

None == [tag |-> "None"]
Some(x) == [tag |-> "Some", fs |-> x]
Bytes(b) == [variant |-> "Bytes", val |-> b]
Kilobytes(x) == [variant |-> "Kilobytes", val |-> x]
Megabytes(x) == [variant |-> "Megabytes", val |-> x]
Gigabytes(x) == [variant |-> "Gigabytes", val |-> x]

Usage == <<"Invalid input format. Usage: cargo run -- <size>">>

\* FileSize::from_input: the Option it returns and the lines it writes to
\* standard error
FromInput(s) ==
    LET parts == SplitWhitespace(s) IN
    IF Len(parts) # 2 THEN [ret |-> None, err |-> <<Usage>>]
    ELSE LET parsed == ParseF64(parts[1]) IN
    IF parsed.tag = "Err"
    THEN [ret |-> None, err |-> << <<"Invalid size value: ", parts[1]>> >>]
    ELSE LET size == parsed.val IN
    IF LtZero(size)
    THEN [ret |-> None, err |-> << <<"Size cannot be negative: ", size>> >>]
    ELSE LET unit == ToLowercase(parts[2]) IN
    IF unit = <<"b", "y", "t", "e", "s">> THEN [ret |-> Some(Bytes(AsU64(size))), err |-> <<>>]
    ELSE IF unit = <<"k", "b">> THEN [ret |-> Some(Kilobytes(size)), err |-> <<>>]
    ELSE IF unit = <<"m", "b">> THEN [ret |-> Some(Megabytes(size)), err |-> <<>>]
    ELSE IF unit = <<"g", "b">> THEN [ret |-> Some(Gigabytes(size)), err |-> <<>>]
    ELSE [ret |-> None, err |-> << <<"Unknown unit: ", unit>> >>]

ArgTokens ==
    { <<"1">>, <<"1", ".", "5">>, <<"-", "1">>, <<"-", "0">>, <<"n", "a", "n">>,
      <<"i", "n", "f">>, <<"x", "1">>,
      <<"b", "y", "t", "e", "s">>, <<"K", "B">>, <<"k", "b">>, <<"M", "b">>,
      <<"g", "b">>, <<"t", "b">> }

RECURSIVE Join(_, _)
Join(ts, sep) ==
    IF ts = <<>> THEN <<>>
    ELSE IF Len(ts) = 1 THEN ts[1]
    ELSE ts[1] \o sep \o Join(Tail(ts), sep)

TokenSeqs == UNION { [1..n -> ArgTokens] : n \in 0..MaxTokens }
ArgStrings ==
    { Join(ts, <<" ">>) : ts \in TokenSeqs }
    \cup { <<"\t">> \o Join(ts, <<" ", " ">>) \o <<" ">> : ts \in TokenSeqs }

InitFile ==
    /\ arg \in { [some |-> FALSE] } \cup { [some |-> TRUE, s |-> a] : a \in ArgStrings }
    /\ fpc = "start"
    /\ file_size = Unset
    /\ stdout = <<>>
    /\ stderr = <<>>
    /\ IdleArea
    /\ IdleInput

\* main, no argument given: the else branch of line 110
MainNoArg ==
    /\ fpc = "start"
    /\ ~arg.some
    /\ stderr' = Append(stderr, <<"No file size provided. Usage: cargo run -- <size>">>)
    /\ fpc' = "done"
    /\ UNCHANGED <<arg, file_size, stdout, areaVars, inputVars>>

\* main, line 96: the call of FileSize::from_input(&input)
MainFromInput ==
    /\ fpc = "start"
    /\ arg.some
    /\ LET r == FromInput(arg.s) IN
         /\ file_size' = r.ret
         /\ stderr' = stderr \o r.err
    /\ fpc' = "parsed"
    /\ UNCHANGED <<arg, stdout, areaVars, inputVars>>

\* main, lines 97-109: the sizes are printed for a Some (the lines of
\* Sizes::from_file_size are stood for by the FileSize they are made of),
\* the usage line for a None
MainReport ==
    /\ fpc = "parsed"
    /\ IF file_size.tag = "Some"
       THEN /\ stdout' = Append(stdout, <<"Sizes: ", file_size.fs>>)
            /\ stderr' = stderr
       ELSE /\ stderr' = Append(stderr, Usage)
            /\ stdout' = stdout
    /\ fpc' = "done"
    /\ UNCHANGED <<arg, file_size, areaVars, inputVars>>

NextFile == MainNoArg \/ MainFromInput \/ MainReport

SpecFile == InitFile /\ [][NextFile]_vars /\ WF_vars(NextFile)

(***************************************************************************)
(* Properties of calculate-area (checked under SpecArea).                  *)
(***************************************************************************)
Measure(s) == IF s.kind = "Circle" THEN s.radius ELSE s.length
Reason(s) == IF s.kind = "Circle" THEN "Invalid radius size" ELSE "Invalid length size"
Finished == apc \in {"match", "done"}
\* the shapes whose area is not defined
InvalidIdx == { i \in 1..Len(shapes) : ~GtZero(Measure(shapes[i])) }
FirstInvalid == CHOOSE i \in InvalidIdx : \A j \in InvalidIdx : i <= j

\* C1: when the sequence holds a shape with a measurement <= 0, the
\* aggregation fails with the reason of the first invalid shape in iteration
\* order, whatever follows it.
C1_FirstFailureReason ==
    (Finished /\ \E i \in 1..Len(shapes) : LeZero(Measure(shapes[i])))
        => total_area = Err(Reason(shapes[FirstInvalid]))

C1_Witness ==
    /\ apc = "done"
    /\ Len(shapes) = 3
    /\ GtZero(Measure(shapes[1]))
    /\ shapes[2].kind = "Square" /\ LeZero(shapes[2].length)
    /\ shapes[3].kind = "Circle" /\ LeZero(shapes[3].radius)
    /\ total_area = Err("Invalid length size")

\* C2: area() is invoked on the shapes in sequence order, never on a shape
\* after one whose area() failed, and a failed aggregation carries no sum.
C2_ShortCircuit ==
    /\ calls = [k \in 1..Len(calls) |-> k]
    /\ Len(areas) \in {Len(calls), Len(calls) - 1}
    /\ \A k \in 1..Len(calls) : \A i \in InvalidIdx : calls[k] <= i
    /\ (Finished /\ InvalidIdx # {}) =>
          /\ total_area.tag = "Err"
          /\ Len(calls) = FirstInvalid
          /\ stdout = <<>>

C2_Witness ==
    /\ apc = "done"
    /\ Len(shapes) = 3
    /\ FirstInvalid = 2
    /\ calls = <<1, 2>>
    /\ Len(areas) = 1
    /\ total_area.tag = "Err"

RECURSIVE SumSquares(_, _)
SumSquares(kind, I) ==
    IF I = {} THEN 0
    ELSE LET i == CHOOSE j \in I : TRUE
             m == Measure(shapes[i]).v
         IN (IF shapes[i].kind = kind THEN m * m ELSE 0) + SumSquares(kind, I \ {i})

\* pi * (sum of the squared radii) + (sum of the squared lengths)
ExpectedTotal ==
    PiScaled * SumSquares("Circle", 1..Len(shapes))
    + Scale * SumSquares("Square", 1..Len(shapes))

\* C3: the aggregation succeeds exactly when every measurement is > 0, and
\* then its value is the sum of the areas of all the shapes.
C3_SuccessIffAllValid ==
    Finished =>
        /\ total_area.tag = "Ok" <=> \A i \in 1..Len(shapes) : GtZero(Measure(shapes[i]))
        /\ total_area.tag = "Ok" => total_area.val = ExpectedTotal

C3_Witness ==
    /\ apc = "done"
    /\ Len(shapes) = 3
    /\ \E i, j \in 1..3 : shapes[i].kind = "Circle" /\ shapes[j].kind = "Square"
    /\ total_area.tag = "Ok"
    /\ total_area.val = ExpectedTotal
    /\ total_area.val > 0

\* C4: area() succeeds exactly when the measurement is > 0; for a
\* measurement <= 0 (zero included) a Circle fails with "Invalid radius size"
\* and a Square with "Invalid length size".
C4_AreaDefinedIffPositive ==
    /\ \A k \in 1..Len(calls) :
          /\ k <= Len(areas) <=> GtZero(Measure(shapes[calls[k]]))
          /\ LeZero(Measure(shapes[calls[k]])) => k > Len(areas)
    /\ Len(calls) > Len(areas) <=> residual # NoErr
    /\ residual # NoErr => residual = Err(Reason(shapes[calls[Len(calls)]]))

C4_Witness ==
    /\ Len(calls) = 2
    /\ shapes[1] = Square(Num(1))
    /\ shapes[2] = Circle(Num(0))
    /\ residual = Err("Invalid radius size")

\* C5: a Square with length > 0 has area length^2, a Circle with radius > 0
\* has area pi * radius^2, and a successful area is never negative.
C5_AreaValue ==
    \A k \in 1..Len(areas) :
        LET s == shapes[calls[k]] IN
        /\ s.kind = "Square" => areas[k] = Scale * (s.length.v ^ 2)
        /\ s.kind = "Circle" => areas[k] = PiScaled * (s.radius.v ^ 2)
        /\ areas[k] >= 0

C5_Witness ==
    /\ Len(areas) = 2
    /\ shapes[1] = Square(Num(2)) /\ areas[1] = 4 * Scale
    /\ shapes[2] = Circle(Num(2)) /\ areas[2] = 4 * PiScaled

\* C6: the empty shape sequence aggregates to success with total area 0.0.
C6_EmptyIsZero ==
    (Finished /\ shapes = <<>>) => total_area = Ok(0)

C6_Witness ==
    /\ apc = "done"
    /\ shapes = <<>>
    /\ calls = <<>>
    /\ total_area = Ok(0)

\* C7: every run prints exactly one message and then terminates: the total
\* on standard output after a success, the error on standard error after a
\* failure; for main's own list it is "Total area: 100.11 sq. units".
C7_OneMessage ==
    /\ [](Len(stdout) + Len(stderr) <= 1)
    /\ [](apc = "done" =>
            IF total_area.tag = "Ok"
            THEN stderr = <<>> /\ stdout = << <<"Total area: ", Format2(total_area.val), " sq. units">> >>
            ELSE stdout = <<>> /\ stderr = << <<"Error calculating area: ", total_area.err>> >>)
    /\ []((apc = "done" /\ shapes = MainShapes) =>
            stdout = << <<"Total area: ", 10011, " sq. units">> >>)
    /\ <>(apc = "done")
    /\ [][apc # "done"]_vars

C7_Witness ==
    /\ apc = "done"
    /\ shapes = MainShapes
    /\ stderr = <<>>
    /\ stdout = << <<"Total area: ", 10011, " sq. units">> >>

(***************************************************************************)
(* Properties of while-input (checked under SpecInput).                    *)
(***************************************************************************)
\* s is "stop" with whitespace only before and after it
IsStopLine(s) ==
    \E i \in 1..Len(s) :
        /\ i + 3 <= Len(s)
        /\ SubSeq(s, i, i + 3) = STOP
        /\ \A j \in 1..Len(s) : (j < i \/ j > i + 3) => IsWhitespace(s[j])

\* C8: after a line that trims to "stop" is read no further line is read,
\* "Stopping..." is printed exactly once as the last output and the program
\* terminates; after any other line the program prompts and reads again.
C8_StopsOnStop ==
    /\ [](IsStopLine(input) => wpc \in {"echo", "test", "exit", "done"})
    /\ [][IsStopLine(input) => stdin' = stdin /\ input' = input]_vars
    /\ []((wpc = "echo" /\ IsStopLine(input)) => <>(wpc = "done"))
    /\ [](wpc = "done" => nStopping = 1 /\ lastOut = <<"Stopping...">> /\ IsStopLine(input))
    /\ [](wpc # "done" => nStopping = 0)
    /\ [][wpc # "done"]_vars
    /\ []((wpc = "echo" /\ ~IsStopLine(input))
            => <>(wpc = "read" /\ lastOut = <<"Please type something: ">>))

C8_Witness ==
    /\ wpc = "done"
    /\ input = <<" ", "s", "t", "o", "p", "\t", "\r", "\n">>
    /\ stdin # <<>>
    /\ nStopping = 1
    /\ lastOut = <<"Stopping...">>

\* standard input is exhausted and the line last read is not "stop"
EofNoStop == stdin = <<>> /\ ~IsStopLine(input) /\ wpc \notin {"panicked", "idle"}

\* C10: the loop ends only after a line that trims to "stop"; at end of
\* input without one, read_line gives an empty line and the program prompts
\* and echoes forever without printing "Stopping...".
C10_EofLoopsForever ==
    /\ []((wpc \in {"exit", "done"} \/ nStopping > 0) => IsStopLine(input))
    /\ [](EofNoStop => [](EofNoStop /\ nStopping = 0 /\ wpc \notin {"exit", "done"}))
    /\ [][(wpc = "read" /\ stdin = <<>>) => (input' = <<>> /\ wpc' = "echo")]_vars
    /\ [](EofNoStop => <>(wpc = "read" /\ lastOut = <<"Please type something: ">>))
    /\ [](EofNoStop => <>(wpc = "test" /\ lastOut = <<"You typed: ", <<>> >>))

C10_Witness ==
    /\ stdin = <<>>
    /\ wpc = "test"
    /\ input = <<>>
    /\ lastOut = <<"You typed: ", <<>> >>
    /\ nStopping = 0

(***************************************************************************)
(* Properties of file-size-formatter (checked under SpecFile).             *)
(***************************************************************************)
TokStarts(s) == { i \in 1..Len(s) : ~IsWhitespace(s[i]) /\ (i = 1 \/ IsWhitespace(s[i - 1])) }
TokEnds(s) == { i \in 1..Len(s) : ~IsWhitespace(s[i]) /\ (i = Len(s) \/ IsWhitespace(s[i + 1])) }
MinOf(S) == CHOOSE x \in S : \A y \in S : x <= y
MaxOf(S) == CHOOSE x \in S : \A y \in S : x >= y
FirstToken(s) == SubSeq(s, MinOf(TokStarts(s)), MinOf(TokEnds(s)))
LastToken(s) == SubSeq(s, MaxOf(TokStarts(s)), MaxOf(TokEnds(s)))

EqIgnoreCase(a, b) ==
    /\ Len(a) = Len(b)
    /\ \A i \in 1..Len(a) :
          \/ a[i] = b[i]
          \/ \E k \in 1..Len(UpperChars) : {a[i], b[i]} = {UpperChars[k], LowerChars[k]}

UnitTable ==
    { [name |-> <<"b", "y", "t", "e", "s">>, variant |-> "Bytes"],
      [name |-> <<"k", "b">>, variant |-> "Kilobytes"],
      [name |-> <<"m", "b">>, variant |-> "Megabytes"],
      [name |-> <<"g", "b">>, variant |-> "Gigabytes"] }

\* a parsed number that is not less than zero
NotNegative(x) == x.kind = "nan" \/ ~x.neg \/ (x.kind = "num" /\ x.mant = 0)

\* the argument is "<number> <unit>": two tokens, a number that is not
\* negative, a known unit in any case
Accepted(s) ==
    /\ Cardinality(TokStarts(s)) = 2
    /\ ParseF64(FirstToken(s)).tag = "Ok"
    /\ NotNegative(ParseF64(FirstToken(s)).val)
    /\ \E u \in UnitTable : EqIgnoreCase(LastToken(s), u.name)

Returned == fpc \in {"parsed", "done"} /\ arg.some

\* Some exactly for an accepted argument, of the variant of its unit
SomeIffAccepted ==
    /\ file_size.tag = "Some" <=> Accepted(arg.s)
    /\ file_size.tag # "Some" => file_size = None
    /\ file_size.tag = "Some" =>
          \E u \in UnitTable :
              /\ EqIgnoreCase(LastToken(arg.s), u.name)
              /\ file_size.fs.variant = u.variant

\* the u64 b is the f64 x with its fraction dropped (NaN: 0; +inf: u64::MAX)
TruncatedToU64(b, x) ==
    IF x.kind = "num"
    THEN ~b.sat /\ b.n * FracScale <= x.mant /\ x.mant < (b.n + 1) * FracScale
    ELSE IF x.kind = "inf" THEN b.sat
    ELSE ~b.sat /\ b.n = 0

\* the u64 b is the value of the finite f64 x
SameValue(b, x) == x.kind = "num" => (~b.sat /\ b.n * FracScale = x.mant)

\* C9 as stated: from_input returns Some exactly for two tokens, a number
\* that is not negative and a known unit in any case; the variant is the
\* unit's and it carries the parsed size; otherwise None.
C9_CarriesParsedSize ==
    Returned =>
        /\ SomeIffAccepted
        /\ file_size.tag = "Some" =>
              LET size == ParseF64(FirstToken(arg.s)).val IN
              IF file_size.fs.variant = "Bytes"
              THEN SameValue(file_size.fs.val, size)
              ELSE file_size.fs.val = size

\* C9 as amended: the same, but Bytes carries the parsed size converted to a
\* u64 (fraction dropped, NaN as 0, +infinity as u64::MAX), and the other
\* variants carry the parsed size itself.
C9_CarriesConvertedSize ==
    Returned =>
        /\ SomeIffAccepted
        /\ file_size.tag = "Some" =>
              LET size == ParseF64(FirstToken(arg.s)).val IN
              IF file_size.fs.variant = "Bytes"
              THEN TruncatedToU64(file_size.fs.val, size)
              ELSE file_size.fs.val = size

C9_Witness ==
    /\ fpc = "parsed"
    /\ arg.some
    /\ arg.s = <<"\t", "1", ".", "5", " ", " ", "b", "y", "t", "e", "s", " ">>
    /\ file_size = Some(Bytes([sat |-> FALSE, n |-> 1]))
    /\ stderr = <<>>

====
